---------------------------- MODULE Spec2Model ----------------------------
(***************************************************************************)
(* A model of the SPLICE drum-pattern decoder (challenge-01/decoder.go)    *)
(* and of the pattern printout (pattern_printout.go).                      *)
(*                                                                         *)
(* One behaviour is one call of decode(r) on one byte source, followed,    *)
(* when it succeeds, by one call of Pattern.String().  The byte source is  *)
(* the variable src; the functions of decoder.go are operators over a      *)
(* reader value [pos, N, limited] and the actions are the steps of decode: *)
(* each read of a field with the error check after it, the exit of the     *)
(* loop of decodeTracks, and String.                                       *)
(***************************************************************************)
EXTENDS Integers, Sequences, FiniteSets, TLC

VARIABLES
    src,          \* the bytes the underlying io.Reader yields, in order
    pos,          \* number of bytes consumed from the underlying reader
    N,            \* io.LimitedReader.N (meaningful once limited is TRUE)
    limited,      \* TRUE once newPayloadReader has built the LimitedReader
    payloadSize,  \* the value of the local payloadSize of newPayloadReader
    pc,           \* position in decode / String
    version,      \* local version of decodePattern
    tempo,        \* local tempo of decodePattern (the float32's bit pattern)
    trackID,      \* local trackID of decodeSingleTrack
    name,         \* the name decodeTrackName returned
    tracks,       \* local tracks of decodeTracks
    result,       \* the *Pattern decode returns (NilPattern: nil)
    err,          \* the error decode returns (NoErr: nil)
    out           \* the string String() returns, as a sequence of characters

vars == <<src, pos, N, limited, payloadSize, pc, version, tempo, trackID,
          name, tracks, result, err, out>>

-----------------------------------------------------------------------------
(* Bounds of the input family.                                             *)

MaxTracks == 2
MaxNameLen == 2
MaxExtra == 1

-----------------------------------------------------------------------------
(* Program constants.                                                      *)

spliceTypePattern == <<83, 80, 76, 73, 67, 69>>      \* "SPLICE"
typeHeaderLength == Len(spliceTypePattern)
payloadSizeLength == 8                               \* binary.Size(int64)
maxVersionLength == 32
stepsLength == 16
blockSize == 4
blockSeparator == 124                                \* '|'
symbolStepEnabled == 120                             \* 'x'
symbolStepDisabled == 45                             \* '-'
LineFeed == 10                                       \* "\n"

Min(a, b) == IF a < b THEN a ELSE b
Max(a, b) == IF a > b THEN a ELSE b

-----------------------------------------------------------------------------
(* Errors.  An error is [ctx, cause]: fmt.Errorf("<ctx>: %v", cause), or a  *)
(* bare sentinel with an empty ctx.                                        *)

NoErr == [ctx |-> "", cause |-> ""]
ErrUnsupportedFileFormat == [ctx |-> "", cause |-> "unsupported file format"]
EOF == "EOF"
ErrUnexpectedEOF == "unexpected EOF"
Errorf(ctx, cause) == [ctx |-> ctx, cause |-> cause]

NilPattern == [isNil |-> TRUE, version |-> <<>>, tempo |-> 0, tracks |-> <<>>]
Pattern(v, t, trs) == [isNil |-> FALSE, version |-> v, tempo |-> t, tracks |-> trs]
Track(id, nm, steps) == [id |-> id, name |-> nm, steps |-> steps]

-----------------------------------------------------------------------------
(* Readers.  A reader value is [pos, N, limited] over the source src.      *)

\* One Read call on the underlying source for a buffer of n >= 1 bytes.
SourceRead(r, n) ==
    LET remaining == Len(src) - r.pos
        k == Min(n, remaining)
    IN IF remaining <= 0
       THEN [n |-> 0, data |-> <<>>, err |-> EOF, r |-> r]
       ELSE [n |-> k, data |-> SubSeq(src, r.pos + 1, r.pos + k), err |-> "",
             r |-> [r EXCEPT !.pos = @ + k]]

\* Mutant: the buffer is not cut to the N bytes left.
LimitedRead_NoLimit(r, n) ==
    IF r.N <= 0
    THEN [n |-> 0, data |-> <<>>, err |-> EOF, r |-> r]
    ELSE LET res == SourceRead(r, n)
         IN [res EXCEPT !.r = [res.r EXCEPT !.N = @ - res.n]]

\* Mutant: N is not decremented by the bytes read.
LimitedRead_NoDecrement(r, n) ==
    IF r.N <= 0
    THEN [n |-> 0, data |-> <<>>, err |-> EOF, r |-> r]
    ELSE SourceRead(r, IF n > r.N THEN r.N ELSE n)

\* io.LimitedReader.Read.
LimitedRead(r, n) ==
    IF r.N <= 0
    THEN [n |-> 0, data |-> <<>>, err |-> EOF, r |-> r]
    ELSE LET m == IF n > r.N THEN r.N ELSE n
             res == SourceRead(r, m)
         IN [res EXCEPT !.r = [res.r EXCEPT !.N = @ - res.n]]

Read(r, n) == IF r.limited THEN LimitedRead(r, n) ELSE SourceRead(r, n)

\* What io.ReadFull returns once a Read has failed with e, got being all
\* the bytes read so far.
ReadFullEnd(r, n, got, e) ==
    IF Len(got) >= n THEN [data |-> got, err |-> "", r |-> r]
    ELSE IF Len(got) > 0 /\ e = EOF
         THEN [data |-> got, err |-> ErrUnexpectedEOF, r |-> r]
    ELSE [data |-> got, err |-> e, r |-> r]

\* io.ReadFull: Read until n bytes are there or a Read fails.  res is the
\* result of the one Read of an iteration.
RECURSIVE ReadFullLoop(_, _, _)
ReadFullLoop(r, n, data) ==
    IF Len(data) >= n
    THEN [data |-> data, err |-> "", r |-> r]
    ELSE CHOOSE full \in
            {IF res.err = ""
             THEN ReadFullLoop(res.r, n, data \o res.data)
             ELSE ReadFullEnd(res.r, n, data \o res.data, res.err)
                : res \in {Read(r, n - Len(data))}} : TRUE

ReadFull(r, n) == ReadFullLoop(r, n, <<>>)

\* readBytes: n bytes in a new slice, or nil and the error of ReadFull.
readBytes(r, n) ==
    LET res == ReadFull(r, n)
    IN IF res.err # "" THEN [res EXCEPT !.data = <<>>] ELSE res

\* binary.Read of a fixed-size value of n bytes: ReadFull, then the decoding.
binaryRead(r, n) == ReadFull(r, n)

-----------------------------------------------------------------------------
(* Byte decodings.                                                         *)

RECURSIVE BigEndian(_)
BigEndian(b) ==
    IF b = <<>> THEN 0 ELSE 256 * BigEndian(SubSeq(b, 1, Len(b) - 1)) + b[Len(b)]

RECURSIVE LittleEndian(_)
LittleEndian(b) ==
    IF b = <<>> THEN 0 ELSE b[1] + 256 * LittleEndian(Tail(b))

\* int64 values are kept exactly in (-2^24 .. 2^24) and clamped to +-Huge
\* outside: N is only compared with 0 and with buffer lengths (at most 255)
\* and decremented by bytes read, of which a source has far fewer than Huge.
Huge == 2^30
LowWidth == 2^24

\* binary.BigEndian.Uint64 followed by the conversion to int64.
Int64BigEndian(b) ==
    LET high == SubSeq(b, 1, 5)
        low == BigEndian(SubSeq(b, 6, 8))
    IN IF b[1] < 128
       THEN IF \A i \in 1..5 : high[i] = 0 THEN low ELSE Huge
       ELSE IF \A i \in 1..5 : high[i] = 255 THEN low - LowWidth ELSE 0 - Huge

-----------------------------------------------------------------------------
(* Helpers of decoder.go whose definitions are outside the given sources.  *)

\* cropToString: the bytes before the first zero byte, all of them if none.
RECURSIVE cropToString(_)
cropToString(b) ==
    IF b = <<>> \/ b[1] = 0 THEN <<>> ELSE <<b[1]>> \o cropToString(Tail(b))

\* byteToBool: on exactly for the byte 1; it never fails.
byteToBool(v) == [value |-> (v = 1), err |-> NoErr]

-----------------------------------------------------------------------------
(* decodeSteps: the range loop over stepsAsBytes from index i (1-based) on. *)

ZeroSteps == [i \in 1..stepsLength |-> FALSE]

\* Mutant: any nonzero byte is an on step.
stepsLoop_NonZero(stepsAsBytes, i, steps) ==
    [steps |-> [j \in 1..stepsLength |-> stepsAsBytes[j] # 0], err |-> NoErr]

RECURSIVE stepsLoop(_, _, _)
stepsLoop(stepsAsBytes, i, steps) ==
    IF i > Len(stepsAsBytes)
    THEN [steps |-> steps, err |-> NoErr]
    ELSE LET b == byteToBool(stepsAsBytes[i])
         IN IF b.err # NoErr
            THEN [steps |-> [steps EXCEPT ![i] = b.value], err |-> b.err]
            ELSE stepsLoop(stepsAsBytes, i + 1, [steps EXCEPT ![i] = b.value])

-----------------------------------------------------------------------------
(* The printout.                                                           *)

\* The loop of appendSteps from step i (0-based) on.
RECURSIVE appendStepsLoop(_, _, _)
appendStepsLoop(w, s, i) ==
    IF i >= Len(s)
    THEN w
    ELSE LET w1 == IF i % blockSize = 0 THEN Append(w, blockSeparator) ELSE w
             w2 == IF s[i + 1] THEN Append(w1, symbolStepEnabled)
                   ELSE Append(w1, symbolStepDisabled)
         IN appendStepsLoop(w2, s, i + 1)

\* Mutant: no separator after the last block.
appendSteps_NoTrailing(w, s) == appendStepsLoop(w, s, 0)

appendSteps(w, s) == Append(appendStepsLoop(w, s, 0), blockSeparator)

\* %v of an unsigned integer: its decimal digits.
RECURSIVE FormatUint(_)
FormatUint(n) ==
    IF n < 10 THEN <<48 + n>> ELSE FormatUint(n \div 10) \o <<48 + (n % 10)>>

\* %v of a float32: digits, sign, point and exponent, never a line feed.  The
\* text is kept as one token, a negative number carrying the bit pattern, so
\* that it differs from every character.
FormatFloat32(bits) == <<0 - (bits + 1)>>

appendTrack(w, t) ==
    LET w1 == w \o <<40>> \o FormatUint(t.id) \o <<41, 32>> \o t.name \o <<9>>
    IN Append(appendSteps(w1, t.steps), LineFeed)

RECURSIVE appendTracks(_, _)
appendTracks(w, trs) ==
    IF trs = <<>> THEN w ELSE appendTracks(appendTrack(w, Head(trs)), Tail(trs))

\* "Saved with HW Version: " and "Tempo: "
SavedWith == <<83, 97, 118, 101, 100, 32, 119, 105, 116, 104, 32, 72, 87, 32,
               86, 101, 114, 115, 105, 111, 110, 58, 32>>
TempoLabel == <<84, 101, 109, 112, 111, 58, 32>>

String(p) ==
    LET w1 == SavedWith \o p.version \o <<LineFeed>>
        w2 == w1 \o TempoLabel \o FormatFloat32(p.tempo) \o <<LineFeed>>
    IN appendTracks(w2, p.tracks)

-----------------------------------------------------------------------------
(* The byte sources decode is run on: SPLICE files built field by field,   *)
(* then cut short, given another declared size, another identifier or      *)
(* another version field, or followed by bytes past the payload.           *)

RECURSIVE Flatten(_)
Flatten(ss) == IF ss = <<>> THEN <<>> ELSE Head(ss) \o Flatten(Tail(ss))

\* n as a big-endian two's complement field of w bytes, -2^24 < n < 2^24.
RECURSIVE EncodeBigEndian(_, _)
EncodeBigEndian(n, w) ==
    IF w = 0 THEN <<>>
    ELSE EncodeBigEndian((n - (n % 256)) \div 256, w - 1) \o <<n % 256>>

MinInt64Bytes == <<128, 0, 0, 0, 0, 0, 0, 0>>
MaxInt64Bytes == <<127, 255, 255, 255, 255, 255, 255, 255>>

VersionLetters == <<48, 46, 56, 48, 56, 45, 97, 108, 112, 104, 97>>  \* 0.808-alpha
NameLetters == <<107, 10, 99>>                                       \* k, LF, c
StepBytes == <<0, 1, 2, 255, 1>>
TempoBytes == <<0, 0, 240, 66>>                                      \* 120.0

\* A version field: k letters, a zero byte, then the byte t up to the width.
VersionField(k, t) ==
    [i \in 1..maxVersionLength |->
        IF i <= k THEN VersionLetters[((i - 1) % Len(VersionLetters)) + 1]
        ELSE IF i = k + 1 THEN 0 ELSE t]

VersionChoices ==
    {VersionField(k, t) : k \in {0, 1, 11, maxVersionLength - 1, maxVersionLength},
                          t \in {0, 10, 65}}

DefaultVersion == VersionField(11, 0)

\* The bytes of the j-th track of a file of variant v, its name l bytes long.
TrackBytes(j, l, v) ==
    LET id == IF v = 0 THEN <<j - 1, 0, 0, 0>> ELSE <<j + 1, 1, 0, 0>>
        nm == [i \in 1..l |-> NameLetters[((i + j + v) % Len(NameLetters)) + 1]]
        steps == [i \in 1..stepsLength |->
                     IF v = 0 THEN (IF (i - 1) % blockSize = 0 THEN 1 ELSE 0)
                     ELSE StepBytes[((i + j) % Len(StepBytes)) + 1]]
    IN id \o <<l>> \o nm \o steps

\* The name lengths of the tracks of a file: up to MaxTracks of them.
NameLengths == UNION {[1..n -> 0..MaxNameLen] : n \in 0..MaxTracks}

Payload(ver, ls, v) ==
    ver \o TempoBytes \o Flatten([j \in 1..Len(ls) |-> TrackBytes(j, ls[j], v)])

File(magic, sizeField, payload) == magic \o sizeField \o payload

Extra(e) == [i \in 1..e |-> 7]

OtherMagics == {<<83, 80, 76, 73, 67, 88>>, <<88, 80, 76, 73, 67, 69>>,
                <<115, 112, 108, 105, 99, 101>>}

Inputs ==
    UNION {
        LET pl == Payload(DefaultVersion, ls, v)
            good == File(spliceTypePattern, EncodeBigEndian(Len(pl), 8), pl)
        IN  \* cut short anywhere
            {SubSeq(good, 1, c) : c \in 0..Len(good)}
            \* another declared size, and bytes past the payload
            \cup {File(spliceTypePattern, sz, pl) \o Extra(e) :
                    sz \in {EncodeBigEndian(n, 8) : n \in -1..(Len(pl) + MaxExtra + 1)}
                           \cup {MinInt64Bytes, MaxInt64Bytes},
                    e \in {0, MaxExtra}}
            \* another identifier
            \cup {SubSeq(File(m, EncodeBigEndian(Len(pl), 8), pl), 1, c) :
                    m \in OtherMagics, c \in {6, 10, Len(good)}}
            \* another version field
            \cup {File(spliceTypePattern, EncodeBigEndian(Len(pl), 8),
                       Payload(ver, ls, v)) : ver \in VersionChoices}
        : ls \in NameLengths, v \in {0, 1}}

-----------------------------------------------------------------------------
(* The state machine: one action per read of decoder.go, with the error    *)
(* check and the return that follow it.                                    *)

Init ==
    /\ src \in Inputs
    /\ pos = 0
    /\ N = 0
    /\ limited = FALSE
    /\ payloadSize = 0
    /\ pc = "typeHeader"
    /\ version = <<>>
    /\ tempo = 0
    /\ trackID = 0
    /\ name = <<>>
    /\ tracks = <<>>
    /\ result = NilPattern
    /\ err = NoErr
    /\ out = <<>>

Reader == [pos |-> pos, N |-> N, limited |-> limited]

\* The reader is left where the read left it.
Advance(r) ==
    /\ pos' = r.pos
    /\ N' = r.N

\* Mutant: the tracks decoded so far are handed back with the error.
Fail_Partial(e) ==
    /\ err' = e
    /\ result' = Pattern(version, tempo, tracks)
    /\ pc' = "returned"

\* "return nil, err" of the function at hand and of each of its callers up
\* to decode: the call is over, with no Pattern.
Fail(e) ==
    /\ err' = e
    /\ result' = NilPattern
    /\ pc' = "returned"

\* Mutant: only the first five bytes of the type header are compared.
ReadTypeHeader_Prefix ==
    /\ pc = "typeHeader"
    /\ \E typeHeader \in {readBytes(Reader, typeHeaderLength)} :
          /\ Advance(typeHeader.r)
          /\ IF typeHeader.err # ""
             THEN Fail(Errorf("parse type header", typeHeader.err))
             ELSE IF SubSeq(typeHeader.data, 1, 5) # SubSeq(spliceTypePattern, 1, 5)
             THEN Fail(ErrUnsupportedFileFormat)
             ELSE /\ pc' = "payloadSize"
                  /\ UNCHANGED <<err, result>>
    /\ UNCHANGED <<src, limited, payloadSize, version, tempo, trackID, name,
                   tracks, out>>

\* Mutant: a short type header is reported as an unsupported format.
ReadTypeHeader_ShortUnsupported ==
    /\ pc = "typeHeader"
    /\ \E typeHeader \in {readBytes(Reader, typeHeaderLength)} :
          /\ Advance(typeHeader.r)
          /\ IF typeHeader.err # "" \/ typeHeader.data # spliceTypePattern
             THEN Fail(ErrUnsupportedFileFormat)
             ELSE /\ pc' = "payloadSize"
                  /\ UNCHANGED <<err, result>>
    /\ UNCHANGED <<src, limited, payloadSize, version, tempo, trackID, name,
                   tracks, out>>

\* newPayloadReader: the type header is read and compared.
ReadTypeHeader ==
    /\ pc = "typeHeader"
    /\ \E typeHeader \in {readBytes(Reader, typeHeaderLength)} :
          /\ Advance(typeHeader.r)
          /\ IF typeHeader.err # ""
             THEN Fail(Errorf("parse type header", typeHeader.err))
             ELSE IF typeHeader.data # spliceTypePattern
             THEN Fail(ErrUnsupportedFileFormat)
             ELSE /\ pc' = "payloadSize"
                  /\ UNCHANGED <<err, result>>
    /\ UNCHANGED <<src, limited, payloadSize, version, tempo, trackID, name,
                   tracks, out>>

\* newPayloadReader: the payload size is read, the LimitedReader is built.
ReadPayloadSize ==
    /\ pc = "payloadSize"
    /\ \E ps \in {binaryRead(Reader, payloadSizeLength)} :
          IF ps.err # ""
          THEN /\ Advance(ps.r)
               /\ Fail(Errorf("parse payload size", ps.err))
               /\ UNCHANGED <<limited, payloadSize>>
          ELSE /\ pos' = ps.r.pos
               /\ payloadSize' = Int64BigEndian(ps.data)
               /\ N' = Int64BigEndian(ps.data)
               /\ limited' = TRUE
               /\ pc' = "version"
               /\ UNCHANGED <<err, result>>
    /\ UNCHANGED <<src, version, tempo, trackID, name, tracks, out>>

\* Mutant: the version field is not cropped at its first zero byte.
ReadVersion_NoCrop ==
    /\ pc = "version"
    /\ \E v \in {readBytes(Reader, maxVersionLength)} :
          /\ Advance(v.r)
          /\ IF v.err # ""
             THEN /\ Fail(Errorf("parse version", v.err))
                  /\ UNCHANGED version
             ELSE /\ version' = v.data
                  /\ pc' = "tempo"
                  /\ UNCHANGED <<err, result>>
    /\ UNCHANGED <<src, limited, payloadSize, tempo, trackID, name, tracks, out>>

\* decodePattern: the version field is read and cropped.
ReadVersion ==
    /\ pc = "version"
    /\ \E v \in {readBytes(Reader, maxVersionLength)} :
          /\ Advance(v.r)
          /\ IF v.err # ""
             THEN /\ Fail(Errorf("parse version", v.err))
                  /\ UNCHANGED version
             ELSE /\ version' = cropToString(v.data)
                  /\ pc' = "tempo"
                  /\ UNCHANGED <<err, result>>
    /\ UNCHANGED <<src, limited, payloadSize, tempo, trackID, name, tracks, out>>

\* decodePattern: the tempo is read; decodeTracks is entered.
ReadTempo ==
    /\ pc = "tempo"
    /\ \E t \in {binaryRead(Reader, 4)} :
          /\ Advance(t.r)
          /\ IF t.err # ""
             THEN /\ Fail(Errorf("parse tempo", t.err))
                  /\ UNCHANGED tempo
             ELSE /\ tempo' = LittleEndian(t.data)
                  /\ pc' = "tracks"
                  /\ UNCHANGED <<err, result>>
    /\ UNCHANGED <<src, limited, payloadSize, version, trackID, name, tracks, out>>

\* decodeTracks: the loop goes on; decodeSingleTrack reads the track id.
ReadTrackID ==
    /\ pc = "tracks"
    /\ N > 0
    /\ \E id \in {binaryRead(Reader, 4)} :
          /\ Advance(id.r)
          /\ IF id.err # ""
             THEN /\ Fail(Errorf("parse track id", id.err))
                  /\ UNCHANGED trackID
             ELSE /\ trackID' = LittleEndian(id.data)
                  /\ pc' = "trackName"
                  /\ UNCHANGED <<err, result>>
    /\ UNCHANGED <<src, limited, payloadSize, version, tempo, name, tracks, out>>

\* Mutant: the error of a short name is handed on as it is, without its field.
ReadTrackName_Generic ==
    /\ pc = "trackName"
    /\ \E lenName \in {binaryRead(Reader, 1)} :
          IF lenName.err # ""
          THEN /\ Advance(lenName.r)
               /\ Fail(Errorf("parse track name length", lenName.err))
               /\ UNCHANGED name
          ELSE \E b \in {readBytes(lenName.r, lenName.data[1])} :
                  /\ Advance(b.r)
                  /\ IF b.err # ""
                     THEN /\ Fail(Errorf("", b.err))
                          /\ UNCHANGED name
                     ELSE /\ name' = b.data
                          /\ pc' = "steps"
                          /\ UNCHANGED <<err, result>>
    /\ UNCHANGED <<src, limited, payloadSize, version, tempo, trackID, tracks, out>>

\* decodeTrackName: the length, then that many bytes.
ReadTrackName ==
    /\ pc = "trackName"
    /\ \E lenName \in {binaryRead(Reader, 1)} :
          IF lenName.err # ""
          THEN /\ Advance(lenName.r)
               /\ Fail(Errorf("parse track name length", lenName.err))
               /\ UNCHANGED name
          ELSE \E b \in {readBytes(lenName.r, lenName.data[1])} :
                  /\ Advance(b.r)
                  /\ IF b.err # ""
                     THEN /\ Fail(Errorf("parse track name", b.err))
                          /\ UNCHANGED name
                     ELSE /\ name' = b.data
                          /\ pc' = "steps"
                          /\ UNCHANGED <<err, result>>
    /\ UNCHANGED <<src, limited, payloadSize, version, tempo, trackID, tracks, out>>

\* Mutant: a short steps field is taken as it comes, the track is kept.
ReadSteps_IgnoreShort ==
    /\ pc = "steps"
    /\ \E stepsAsBytes \in {readBytes(Reader, stepsLength)} :
          /\ Advance(stepsAsBytes.r)
          /\ tracks' = Append(tracks, Track(trackID, name,
                 IF stepsAsBytes.err # "" THEN ZeroSteps
                 ELSE stepsLoop(stepsAsBytes.data, 1, ZeroSteps).steps))
          /\ pc' = "tracks"
          /\ UNCHANGED <<err, result>>
    /\ UNCHANGED <<src, limited, payloadSize, version, tempo, trackID, name, out>>

\* decodeSteps, and the track is appended to the tracks of decodeTracks.
ReadSteps ==
    /\ pc = "steps"
    /\ \E stepsAsBytes \in {readBytes(Reader, stepsLength)} :
          /\ Advance(stepsAsBytes.r)
          /\ IF stepsAsBytes.err # ""
             THEN /\ Fail(Errorf("parse steps", stepsAsBytes.err))
                  /\ UNCHANGED tracks
             ELSE \E l \in {stepsLoop(stepsAsBytes.data, 1, ZeroSteps)} :
                     IF l.err # NoErr
                     THEN /\ Fail(l.err)
                          /\ UNCHANGED tracks
                     ELSE /\ tracks' = Append(tracks, Track(trackID, name, l.steps))
                          /\ pc' = "tracks"
                          /\ UNCHANGED <<err, result>>
    /\ UNCHANGED <<src, limited, payloadSize, version, tempo, trackID, name, out>>

\* decodeTracks: the loop ends; decodePattern returns the Pattern.
ReturnPattern ==
    /\ pc = "tracks"
    /\ ~(N > 0)
    /\ result' = Pattern(version, tempo, tracks)
    /\ pc' = "returned"
    /\ UNCHANGED <<src, pos, N, limited, payloadSize, version, tempo, trackID,
                   name, tracks, err, out>>

\* Pattern.String on the decoded pattern.
Render ==
    /\ pc = "returned"
    /\ ~result.isNil
    /\ out' = String(result)
    /\ pc' = "printed"
    /\ UNCHANGED <<src, pos, N, limited, payloadSize, version, tempo, trackID,
                   name, tracks, result, err>>

Next ==
    \/ ReadTypeHeader
    \/ ReadPayloadSize
    \/ ReadVersion
    \/ ReadTempo
    \/ ReadTrackID
    \/ ReadTrackName
    \/ ReadSteps
    \/ ReturnPattern
    \/ Render

Spec == Init /\ [][Next]_vars

\* decode is one synchronous call and String follows it: every step is taken.
FairSpec == Spec /\ WF_vars(Next)

-----------------------------------------------------------------------------
(* Vocabulary of the properties, in terms of the source bytes alone.       *)

Returned == pc \in {"returned", "printed"}
Succeeded == Returned /\ ~result.isNil

HeaderLength == typeHeaderLength + payloadSizeLength
TrackLength(l) == 4 + 1 + l + stepsLength
FixedPayloadLength == maxVersionLength + 4

BeginsWithSplice ==
    /\ Len(src) >= typeHeaderLength
    /\ SubSeq(src, 1, typeHeaderLength) = spliceTypePattern

\* The bytes of all the tracks of trs, as laid out in the file.
RECURSIVE TracksLength(_)
TracksLength(trs) ==
    IF trs = <<>> THEN 0
    ELSE TrackLength(Len(Head(trs).name)) + TracksLength(Tail(trs))

\* The offset in src (0-based) at which the k-th track of trs starts.
TrackOffset(trs, k) ==
    HeaderLength + FixedPayloadLength + TracksLength(SubSeq(trs, 1, k - 1))

\* The payload bytes a reader bounded by the declared size can get at all.
Obtainable == Min(Max(payloadSize, 0), Len(src) - HeaderLength)

TruncatedHeaderContexts == {"parse type header", "parse payload size"}

-----------------------------------------------------------------------------
\* C1 (as stated): for any byte stream not beginning with the 6-byte literal
\* "SPLICE", decode fails with ErrUnsupportedFileFormat, and no bytes beyond
\* the 6-byte identifier are consumed.
C1_AnyStreamUnsupported ==
    ~BeginsWithSplice =>
        /\ pos <= typeHeaderLength
        /\ Returned => err = ErrUnsupportedFileFormat

\* C1 (amended): for any byte stream of at least 6 bytes whose first 6 bytes
\* differ from "SPLICE", decode fails with ErrUnsupportedFileFormat, returns
\* no Pattern, and has consumed exactly the 6 bytes of the identifier; a
\* stream of fewer than 6 bytes fails with the "parse type header" error.
C1_MismatchUnsupported ==
    ~BeginsWithSplice =>
        /\ pos <= typeHeaderLength
        /\ pc \in {"typeHeader", "returned"}
        /\ pc = "returned" =>
              /\ result.isNil
              /\ IF Len(src) >= typeHeaderLength
                 THEN err = ErrUnsupportedFileFormat /\ pos = typeHeaderLength
                 ELSE err.ctx = "parse type header" /\ pos = Len(src)

C1_Witness ==
    /\ pc = "returned"
    /\ Len(src) > typeHeaderLength
    /\ ~BeginsWithSplice
    /\ SubSeq(src, 1, 5) = SubSeq(spliceTypePattern, 1, 5)
    /\ err = ErrUnsupportedFileFormat

-----------------------------------------------------------------------------
\* C2: whenever decode returns a Pattern, the bytes consumed after the 14-byte
\* header are exactly the declared payload size, and they are 32 version
\* bytes, 4 tempo bytes and whole tracks of 4 + 1 + L + 16 bytes each, L being
\* the length byte found in the source at the track's place.
C2_ExactPayload ==
    Succeeded =>
        /\ err = NoErr
        /\ pos - HeaderLength = payloadSize
        /\ N = 0
        /\ payloadSize = FixedPayloadLength + TracksLength(result.tracks)
        /\ \A k \in 1..Len(result.tracks) :
              LET o == TrackOffset(result.tracks, k)
                  l == Len(result.tracks[k].name)
              IN /\ src[o + 5] = l
                 /\ result.tracks[k].name = SubSeq(src, o + 6, o + 5 + l)
                 /\ o + TrackLength(l) <= pos

C2_Witness ==
    /\ Succeeded
    /\ Len(result.tracks) = 2
    /\ Len(result.tracks[1].name) # Len(result.tracks[2].name)
    /\ pos = Len(src)

-----------------------------------------------------------------------------
\* C3: in every execution the decoder consumes no more than the declared
\* payload size after the size field (nothing at all for a size of zero or
\* less): the allowance N left is the declared size less the bytes consumed,
\* and a decode that returns a Pattern stopped exactly at the payload's end,
\* whatever the source still holds.
C3_BoundedReads ==
    /\ ~limited => pos <= HeaderLength /\ pc \in {"typeHeader", "payloadSize", "returned"}
    /\ limited =>
          /\ pos >= HeaderLength
          /\ pos - HeaderLength <= Max(payloadSize, 0)
          /\ N = payloadSize - (pos - HeaderLength)
          /\ (pc = "tracks" /\ N = 0) => ENABLED ReturnPattern /\ ~ENABLED ReadTrackID
          /\ Succeeded => pos = HeaderLength + payloadSize

C3_Witness ==
    /\ pc = "returned"
    /\ err.ctx = "parse steps"
    /\ N = 0
    /\ Len(tracks) >= 1
    /\ Len(src) > pos

-----------------------------------------------------------------------------
\* C4: when the source ends before the whole 6-byte identifier or the whole
\* 8-byte size field has been read, decode fails with a truncated-header
\* error ("parse type header" or "parse payload size", with the end-of-input
\* cause) that differs from ErrUnsupportedFileFormat.
C4_TruncatedHeader ==
    (Returned /\ (Len(src) < typeHeaderLength
                  \/ (BeginsWithSplice /\ Len(src) < HeaderLength))) =>
        /\ result.isNil
        /\ err # ErrUnsupportedFileFormat
        /\ err.ctx = (IF Len(src) < typeHeaderLength THEN "parse type header"
                      ELSE "parse payload size")
        /\ err.cause = (IF Len(src) \in {0, typeHeaderLength} THEN EOF
                        ELSE ErrUnexpectedEOF)
        /\ pos = Len(src)

C4_Witness ==
    /\ pc = "returned"
    /\ BeginsWithSplice
    /\ Len(src) = HeaderLength - 1
    /\ err = Errorf("parse payload size", ErrUnexpectedEOF)

-----------------------------------------------------------------------------
\* The field at which the payload runs short: the first field, in the order
\* version, tempo, then per track id, name length, name, steps, that the
\* obtainable bytes a do not cover; "" when they end with a whole track and
\* the allowance with them.  off is the payload offset of the track at hand.
RECURSIVE ShortTrackField(_, _)
ShortTrackField(off, a) ==
    IF a = off THEN (IF payloadSize > a THEN "parse track id" ELSE "")
    ELSE IF a < off + 4 THEN "parse track id"
    ELSE IF a < off + 5 THEN "parse track name length"
    ELSE LET l == src[HeaderLength + off + 5]
         IN IF a < off + 5 + l THEN "parse track name"
            ELSE IF a < off + 5 + l + stepsLength THEN "parse steps"
            ELSE ShortTrackField(off + TrackLength(l), a)

ShortField(a) ==
    IF a < maxVersionLength THEN "parse version"
    ELSE IF a < FixedPayloadLength THEN "parse tempo"
    ELSE ShortTrackField(FixedPayloadLength, a)

\* C5: fields are read in the order version, tempo, then per track id, name
\* length, name, steps; decode fails exactly when one of them comes up short,
\* and the error then carries the first short field in that order and the
\* end-of-input cause; a name cut short is reported as "parse track name".
C5_TruncatedField ==
    (Returned /\ limited) =>
        /\ (err = NoErr) <=> (ShortField(Obtainable) = "")
        /\ err # NoErr =>
              /\ err.ctx = ShortField(Obtainable)
              /\ err.ctx # ""
              /\ err.cause \in {EOF, ErrUnexpectedEOF}

C5_Witness ==
    /\ pc = "returned"
    /\ Len(tracks) >= 1
    /\ err = Errorf("parse track name", ErrUnexpectedEOF)
    /\ pos = Len(src)

-----------------------------------------------------------------------------
\* C6: every failure is terminal and yields no partial result: when decode
\* has an error, the Pattern it returns is nil however many tracks had been
\* decoded, nothing is decoded or printed after it, and decode never returns
\* both a Pattern and an error, nor neither.
C6_NoPartialResult ==
    /\ err # NoErr => result.isNil /\ pc = "returned" /\ ~ENABLED Next
    /\ ~result.isNil => err = NoErr /\ Returned
    /\ Returned => (err = NoErr) # result.isNil

C6_Witness ==
    /\ pc = "returned"
    /\ err # NoErr
    /\ Len(tracks) >= 1
    /\ result = NilPattern

-----------------------------------------------------------------------------
\* C7: for each of the 16 step bytes of every decoded track, the step is on
\* if and only if the byte in the source is 1; any other byte (0, 2, 255)
\* gives an off step, and the track is decoded all the same.
C7_StepOnIffOne ==
    \A k \in 1..Len(tracks) :
        LET o == TrackOffset(tracks, k) + 5 + Len(tracks[k].name)
        IN /\ Len(tracks[k].steps) = stepsLength
           /\ \A i \in 1..stepsLength : tracks[k].steps[i] <=> (src[o + i] = 1)

C7_Witness ==
    /\ Succeeded
    /\ \E k \in 1..Len(result.tracks) :
          LET o == TrackOffset(result.tracks, k) + 5 + Len(result.tracks[k].name)
          IN /\ \E i \in 1..stepsLength : src[o + i] = 255 /\ ~result.tracks[k].steps[i]
             /\ \E i \in 1..stepsLength : src[o + i] = 2 /\ ~result.tracks[k].steps[i]
             /\ \E i \in 1..stepsLength : src[o + i] = 0 /\ ~result.tracks[k].steps[i]
             /\ \E i \in 1..stepsLength : src[o + i] = 1 /\ result.tracks[k].steps[i]

-----------------------------------------------------------------------------
VersionFieldOf == SubSeq(src, HeaderLength + 1, HeaderLength + maxVersionLength)

VersionDecoded ==
    /\ limited
    /\ pc # "version"
    /\ ~(pc = "returned" /\ err.ctx = "parse version")

\* C8: the version field is read at its full width of 32 bytes, and the
\* version is the bytes of the field before its first zero byte, all 32 if
\* it holds none; the bytes after the first zero byte play no part.
C8_VersionCropped ==
    /\ pc = "tempo" => pos = HeaderLength + maxVersionLength
    /\ VersionDecoded =>
          /\ pos >= HeaderLength + maxVersionLength
          /\ Len(version) <= maxVersionLength
          /\ version = SubSeq(VersionFieldOf, 1, Len(version))
          /\ \A i \in 1..Len(version) : version[i] # 0
          /\ Len(version) < maxVersionLength => VersionFieldOf[Len(version) + 1] = 0
          /\ Succeeded => result.version = version

C8_Witness ==
    /\ pc = "tempo"
    /\ Len(version) = 11
    /\ \E i \in 13..maxVersionLength : VersionFieldOf[i] # 0

-----------------------------------------------------------------------------
CountLineFeeds(str) == Cardinality({i \in 1..Len(str) : str[i] = LineFeed})

\* The lines of a text are the stretches its line feeds end (and what
\* follows the last one, if anything does).
LineCount(str) ==
    CountLineFeeds(str)
        + (IF str # <<>> /\ str[Len(str)] # LineFeed THEN 1 ELSE 0)

\* The place of the k-th line feed of str; past its end if there is none.
LineFeedAt(str, k) ==
    IF k = 0 THEN 0
    ELSE IF k > CountLineFeeds(str) THEN Len(str) + 1
    ELSE CHOOSE q \in 1..Len(str) :
            /\ str[q] = LineFeed
            /\ CountLineFeeds(SubSeq(str, 1, q)) = k

Line(str, k) == SubSeq(str, LineFeedAt(str, k - 1) + 1, LineFeedAt(str, k) - 1)

\* The 21 characters of a step grid: a separator at places 1, 6, 11, 16 and
\* 21, and between them the steps in order, x for on and - for off.
Grid(steps) ==
    [q \in 1..(stepsLength + stepsLength \div blockSize + 1) |->
        IF (q - 1) % (blockSize + 1) = 0 THEN blockSeparator
        ELSE IF steps[q - 1 - ((q - 1) \div (blockSize + 1))]
             THEN symbolStepEnabled ELSE symbolStepDisabled]

TrackRecord(t) ==
    <<40>> \o FormatUint(t.id) \o <<41, 32>> \o t.name \o <<9>> \o Grid(t.steps)
        \o <<LineFeed>>

EndsWith(str, suffix) ==
    /\ Len(str) >= Len(suffix)
    /\ SubSeq(str, Len(str) - Len(suffix) + 1, Len(str)) = suffix

\* C9 (as stated): the printout has, after the version and tempo lines,
\* exactly one line per track in decode order, each ending with the track's
\* grid of 21 characters.
C9_OneLinePerTrack ==
    pc = "printed" =>
        /\ LineCount(out) = 2 + Len(result.tracks)
        /\ \A k \in 1..Len(result.tracks) :
              EndsWith(Line(out, 2 + k), Grid(result.tracks[k].steps))

\* C9 (amended): the printout is the version record, the tempo record, then
\* exactly one record per track in decode order, "(id) name", a tab, the grid
\* and a line feed; the grid is 21 characters, a '|' before each block of 4
\* steps and one after the last, 'x' for on and '-' for off in step order.
\* The version and the names are written as they are, so the printout has
\* one line per track and two more, plus one for each line feed they hold.
C9_OneRecordPerTrack ==
    pc = "printed" =>
        /\ out = SavedWith \o result.version \o <<LineFeed>>
                 \o TempoLabel \o FormatFloat32(result.tempo) \o <<LineFeed>>
                 \o Flatten([k \in 1..Len(result.tracks) |->
                                TrackRecord(result.tracks[k])])
        /\ \A k \in 1..Len(result.tracks) :
              /\ Len(Grid(result.tracks[k].steps)) = 21
              /\ Cardinality({q \in 1..21 :
                    Grid(result.tracks[k].steps)[q] = blockSeparator}) = 5
        /\ LineCount(out) =
              2 + Len(result.tracks) + CountLineFeeds(result.version)
                + CountLineFeeds(Flatten([k \in 1..Len(result.tracks) |->
                                             result.tracks[k].name]))

C9_Witness ==
    /\ pc = "printed"
    /\ Len(result.tracks) = 2
    /\ \E k \in 1..2 : CountLineFeeds(result.tracks[k].name) = 1
    /\ \E k \in 1..2 : \E i, j \in 1..stepsLength :
          result.tracks[k].steps[i] /\ ~result.tracks[k].steps[j]

-----------------------------------------------------------------------------
\* Each finished iteration of the track loop took a whole track, at least 21
\* bytes, out of the allowance, which never falls below zero there; with no
\* allowance left the loop ends.
LoopProgress ==
    pc = "tracks" =>
        /\ payloadSize - N = FixedPayloadLength + TracksLength(tracks)
        /\ TracksLength(tracks) >= 21 * Len(tracks)
        /\ N >= 0
        /\ N = 0 => ENABLED ReturnPattern /\ ~ENABLED ReadTrackID

\* C10: decode terminates on every finite input and every declared payload
\* size, zero, negative and larger than the source included: each iteration
\* of the track loop fails or takes at least 21 bytes out of the allowance,
\* the loop ends once the allowance is zero, and decode eventually returns a
\* Pattern or an error.
C10_Terminates == []LoopProgress /\ <>Returned

C10_Witness ==
    /\ pc = "tracks"
    /\ Len(tracks) >= 2
    /\ N > 0

=============================================================================
